---- MODULE Spec2Model ----
(***************************************************************************)
(* Model of proxy.py: the live relay handler `proxy`, the token fetch      *)
(* `request_token`, the header and body pipelines, the exchange log and    *)
(* `replay_request_from_file`.                                             *)
(***************************************************************************)
EXTENDS Integers, Sequences, FiniteSets, TLC

(***************************************************************************)
(* Bounds of the model.                                                    *)
(***************************************************************************)
\* number of chunk reads modelled on one streaming response
MaxChunks == 2

(***************************************************************************)
(* Python values.  None is JSON null; a dict used as a header mapping is   *)
(* a sequence of <<name, value>> pairs with pairwise distinct names, in    *)
(* insertion order.                                                        *)
(***************************************************************************)
JNull == [t |-> "null"]
JBool(b) == [t |-> "bool", b |-> b]
JNum(n) == [t |-> "num", n |-> n]
JStr(s) == [t |-> "str", s |-> s]
JList(items) == [t |-> "list", items |-> items]
JObj(f) == [t |-> "obj", f |-> f]

IsDict(v) == v.t = "obj"
IsList(v) == v.t = "list"
HasKey(o, k) == k \in DOMAIN o.f
\* dict.get(k) with default None
Get(o, k) == IF HasKey(o, k) THEN o.f[k] ELSE JNull
\* dict.get(k, default)
GetDefault(o, k, default) == IF HasKey(o, k) THEN o.f[k] ELSE default
\* del d[k]
DelKey(o, k) == JObj([x \in DOMAIN o.f \ {k} |-> o.f[x]])
\* d[k] = v
SetKey(o, k, v) == JObj([x \in DOMAIN o.f \cup {k} |-> IF x = k THEN v ELSE o.f[x]])

\* Python truth value of a JSON value
Truthy(v) ==
    CASE v.t = "null" -> FALSE
      [] v.t = "bool" -> v.b
      [] v.t = "num" -> v.n # 0
      [] v.t = "str" -> v.s # ""
      [] v.t = "list" -> Len(v.items) > 0
      [] v.t = "obj" -> DOMAIN v.f # {}

(***************************************************************************)
(* Header names and str.lower().                                           *)
(***************************************************************************)
Lower(s) ==
    CASE s = "Authorization" -> "authorization"
      [] s = "AUTHORIZATION" -> "authorization"
      [] s = "Content-Type" -> "content-type"
      [] s = "X-Foo" -> "x-foo"
      [] s = "Origin" -> "origin"
      [] s = "Cookie" -> "cookie"
      [] OTHER -> s

DictKeys(d) == {d[i][1] : i \in 1..Len(d)}
DictHas(d, k) == \E i \in 1..Len(d) : d[i][1] = k
DictGet(d, k) == d[CHOOSE i \in 1..Len(d) : d[i][1] = k][2]
\* d[k] = v : replaces in place, or appends
DictSet(d, k, v) ==
    IF DictHas(d, k)
    THEN [i \in 1..Len(d) |-> IF d[i][1] = k THEN <<k, v>> ELSE d[i]]
    ELSE Append(d, <<k, v>>)
\* del d[k]
DictDel(d, k) == SelectSeq(d, LAMBDA p : p[1] # k)

SetMin(S) == CHOOSE x \in S : \A y \in S : x <= y

\* one iteration of the loop of merge_headers_with_request
MergeOneKeepExisting(merged, merge_key, merge_value) ==
    IF \E i \in 1..Len(merged) : Lower(merged[i][1]) = Lower(merge_key)
    THEN merged
    ELSE DictSet(merged, merge_key, merge_value)

MergeOne(merged, merge_key, merge_value) ==
    LET matching == {i \in 1..Len(merged) : Lower(merged[i][1]) = Lower(merge_key)}
        found == matching # {}
        existing_key == IF found THEN merged[SetMin(matching)][1] ELSE ""
        removed == IF found /\ existing_key # "" THEN DictDel(merged, existing_key) ELSE merged
    IN DictSet(removed, merge_key, merge_value)

RECURSIVE MergeLoop(_, _)
MergeLoop(merged, todo) ==
    IF todo = <<>> THEN merged
    ELSE MergeLoop(MergeOne(merged, Head(todo)[1], Head(todo)[2]), Tail(todo))

merge_headers_with_request(request_headers, merge_headers) ==
    MergeLoop(request_headers, merge_headers)

essential_headers ==
    {"authorization", "content-type", "accept", "user-agent",
     "x-stainless-lang", "x-stainless-package-version", "x-stainless-os",
     "x-stainless-arch", "x-stainless-runtime", "x-stainless-runtime-version",
     "x-stainless-async", "x-stainless-retry-count", "x-stainless-read-timeout",
     "ocp-apim-subscription-key", "trustnest-apim-subscription-key",
     "origin", "access-control-request-method", "access-control-request-headers"}

\* the filter loop of proxy and of replay_request_from_file; the keys of the
\* input are distinct, so every assignment appends
FilterHeadersKeepAll(headers) == headers

FilterHeaders(headers) ==
    SelectSeq(headers, LAMBDA p : Lower(p[1]) \in essential_headers)

\* the dict comprehension that drops every authorization entry
DropAuthorizationWrong(headers) ==
    SelectSeq(headers, LAMBDA p : p[1] # "authorization")

DropAuthorization(headers) ==
    SelectSeq(headers, LAMBDA p : Lower(p[1]) # "authorization")

\* installing the bearer header after a successful token fetch
InstallBearer(filtered_headers, token) ==
    DictSet(DropAuthorization(filtered_headers), "Authorization", "Bearer " \o token)

(***************************************************************************)
(* Body transforms.                                                        *)
(***************************************************************************)
FlattenMessageUnlessUser(message) ==
    IF IsDict(message) /\ HasKey(message, "content") /\ Get(message, "role") # JStr("user")
    THEN LET content == message.f["content"]
         IN IF /\ IsList(content)
               /\ Len(content.items) = 1
               /\ IsDict(content.items[1])
               /\ Get(content.items[1], "type") = JStr("text")
               /\ HasKey(content.items[1], "text")
            THEN SetKey(message, "content", content.items[1].f["text"])
            ELSE message
    ELSE message

FlattenMessage(message) ==
    IF IsDict(message) /\ HasKey(message, "content")
    THEN LET content == message.f["content"]
         IN IF /\ IsList(content)
               /\ Len(content.items) = 1
               /\ IsDict(content.items[1])
               /\ Get(content.items[1], "type") = JStr("text")
               /\ HasKey(content.items[1], "text")
            THEN SetKey(message, "content", content.items[1].f["text"])
            ELSE message
    ELSE message

ReplaceRoleMessageToolCallOnly(message) ==
    IF IsDict(message) /\ HasKey(message, "role")
    THEN IF message.f["role"] = JStr("tool-call")
         THEN SetKey(message, "role", JStr("user"))
         ELSE message
    ELSE message

ReplaceRoleMessage(message) ==
    IF IsDict(message) /\ HasKey(message, "role")
    THEN IF message.f["role"] \in {JStr("tool-call"), JStr("tool-response")}
         THEN SetKey(message, "role", JStr("user"))
         ELSE message
    ELSE message

RemoveNullMessageWhenFalsy(message) ==
    IF IsDict(message)
    THEN IF HasKey(message, "tool_calls") /\ ~Truthy(message.f["tool_calls"])
         THEN DelKey(message, "tool_calls")
         ELSE message
    ELSE message

RemoveNullMessage(message) ==
    IF IsDict(message)
    THEN IF HasKey(message, "tool_calls") /\ message.f["tool_calls"] = JNull
         THEN DelKey(message, "tool_calls")
         ELSE message
    ELSE message

\* isinstance(body, dict) and "messages" in body and it is a list
HasMessageList(body) ==
    IsDict(body) /\ HasKey(body, "messages") /\ IsList(body.f["messages"])

\* the messages of the deep copy
Messages(body) == body.f["messages"].items

flatten_content_in_body(body) ==
    IF HasMessageList(body)
    THEN SetKey(body, "messages",
             JList([i \in 1..Len(Messages(body)) |-> FlattenMessage(Messages(body)[i])]))
    ELSE body

replace_tool_roles_in_body(body) ==
    IF HasMessageList(body)
    THEN SetKey(body, "messages",
             JList([i \in 1..Len(Messages(body)) |-> ReplaceRoleMessage(Messages(body)[i])]))
    ELSE body

remove_null_tool_calls_in_body(body) ==
    IF HasMessageList(body)
    THEN SetKey(body, "messages",
             JList([i \in 1..Len(Messages(body)) |-> RemoveNullMessage(Messages(body)[i])]))
    ELSE body

\* the three conditional transform steps, in the order of proxy and replay
TransformBody(body, flatten, no_tool_roles, remove_null) ==
    LET b1 == IF flatten THEN flatten_content_in_body(body) ELSE body
        b2 == IF no_tool_roles THEN replace_tool_roles_in_body(b1) ELSE b1
    IN IF remove_null THEN remove_null_tool_calls_in_body(b2) ELSE b2

(***************************************************************************)
(* str(e), json.dumps and str() on the values that occur.                  *)
(***************************************************************************)
\* json.dumps / str of a token value
TokenText(token) ==
    CASE token.t = "str" -> token.s
      [] token.t = "num" -> IF token.n = 7 THEN "7" ELSE "0"
      [] token.t = "obj" -> "{\"jwt\": \"tok2\"}"
      [] OTHER -> "null"

\* json.dumps(error_content).encode('utf-8')
DumpErrorAsRepr(error_content) == "{'error': '" \o error_content.error \o "'}"

DumpError(error_content) == "{\"error\": \"" \o error_content.error \o "\"}"

(***************************************************************************)
(* request_token.  `answer` is what the token endpoint does: a transport   *)
(* failure, or a response with a status code and a body.                   *)
(***************************************************************************)
TokenAnswers ==
    {[kind |-> "timeout", text |-> "timed out"],
     [kind |-> "request_error", text |-> "connection refused"],
     [kind |-> "response", status_code |-> 401, is_json |-> TRUE,
      data |-> JObj([access_token |-> JStr("tok1")])],
     [kind |-> "response", status_code |-> 200, is_json |-> FALSE, data |-> JNull],
     [kind |-> "response", status_code |-> 200, is_json |-> TRUE,
      data |-> JObj([expires_in |-> JNum(7)])],
     [kind |-> "response", status_code |-> 200, is_json |-> TRUE,
      data |-> JObj([access_token |-> JStr("")])],
     [kind |-> "response", status_code |-> 200, is_json |-> TRUE,
      data |-> JObj([access_token |-> JStr("tok1")])]}

\* the headers the token request is sent with; for POST the default content
\* type is stored into the dict that the configuration holds
TokenRequestHeaders(config) ==
    IF config.method = "POST"
       /\ ~DictHas(config.headers, "Content-Type")
       /\ ~DictHas(config.headers, "content-type")
    THEN DictSet(config.headers, "Content-Type", "application/x-www-form-urlencoded")
    ELSE config.headers

\* str(e) of the exception that lines 382-386 raise on a JSON body that is
\* not an object: `in` on a number, a bool or null, indexing a list or a
\* str that holds the field name, .keys() on a list or a str that does not
NonDictError(response_data, token_field) ==
    CASE response_data.t = "num" -> "argument of type 'int' is not iterable"
      [] response_data.t = "bool" -> "argument of type 'bool' is not iterable"
      [] response_data.t = "null" -> "argument of type 'NoneType' is not iterable"
      [] response_data.t = "list" ->
            IF \E i \in 1..Len(response_data.items) : response_data.items[i] = JStr(token_field)
            THEN "list indices must be integers or slices, not str"
            ELSE "'list' object has no attribute 'keys'"
      [] response_data.t = "str" ->
            IF response_data.s = token_field
            THEN "string indices must be integers"
            ELSE "'str' object has no attribute 'keys'"

TokenFailure(config, detail) ==
    [ok |-> FALSE, token |-> "", detail |-> detail,
     config |-> [config EXCEPT !.headers = TokenRequestHeaders(config)]]

request_token(config, answer) ==
    IF answer.kind = "timeout"
    THEN TokenFailure(config, "Token request timeout: " \o answer.text)
    ELSE IF answer.kind = "request_error"
    THEN TokenFailure(config, "Token request error: " \o answer.text)
    ELSE IF answer.status_code # 200
    THEN TokenFailure(config, "Token request failed with status")
    ELSE IF ~answer.is_json
    THEN TokenFailure(config, "Token response is not valid JSON")
    ELSE IF ~IsDict(answer.data)
    THEN TokenFailure(config, "Unexpected error during token request: "
                               \o NonDictError(answer.data, config.token_field))
    ELSE IF ~HasKey(answer.data, config.token_field)
    THEN TokenFailure(config, "Token field not found in response")
    ELSE IF ~Truthy(answer.data.f[config.token_field])
    THEN TokenFailure(config, "Token field is empty in response")
    ELSE [ok |-> TRUE, token |-> TokenText(answer.data.f[config.token_field]), detail |-> "",
          config |-> [config EXCEPT !.headers = TokenRequestHeaders(config)]]

(***************************************************************************)
(* Exceptions of the HTTP client: a class and the text of str(e).          *)
(***************************************************************************)
Exceptions ==
    {[cls |-> "ProxyError", text |-> "407 Proxy Auth"],
     [cls |-> "ProxyError", text |-> "Proxy Authentication Required"],
     [cls |-> "ProxyError", text |-> "503 Service Unavailable"],
     [cls |-> "ReadTimeout", text |-> "timed out"],
     [cls |-> "ConnectError", text |-> "407 connection refused"],
     [cls |-> "Exception", text |-> "boom"]}

\* isinstance(e, httpx.ProxyError)
IsProxyError(e) == e.cls = "ProxyError"
\* isinstance(e, httpx.TimeoutException)
IsTimeoutException(e) == e.cls = "ReadTimeout"
\* isinstance(e, httpx.RequestError): ProxyError and the timeouts are
\* transport errors, and every transport error is a request error
IsRequestError(e) == e.cls \in {"ProxyError", "ReadTimeout", "ConnectError"}

\* "407" in str(e) or "Authentication Required" in str(e)
MentionsProxyAuth(text) ==
    text \in {"407 Proxy Auth", "Proxy Authentication Required", "407 connection refused"}

ProxyAuthMessage == "Proxy authentication failed (407). Please check your proxy credentials."

(***************************************************************************)
(* Upstream responses.                                                     *)
(***************************************************************************)
\* response.headers.get('content-type', '').lower()
ContentType(headers) ==
    IF DictHas(headers, "content-type") THEN DictGet(headers, "content-type") ELSE ""

\* 'text/event-stream' in ct or 'application/x-ndjson' in ct or 'text/plain' in ct
IsRawTextType(content_type) ==
    content_type \in {"text/event-stream", "application/x-ndjson", "text/plain; charset=utf-8"}

\* response.json(): the parsed body, when the text is JSON
BodyTexts == {"{\"detail\": \"bad request\"}", "data: hi"}
IsJsonText(text) == text = "{\"detail\": \"bad request\"}"
ParseJsonText(text) == JObj([detail |-> JStr("bad request")])

\* the classification of a buffered body, lines 929-940
ResponseContent(response) ==
    IF IsRawTextType(ContentType(response.headers))
    THEN [text |-> response.text]
    ELSE IF IsJsonText(response.text)
         THEN [json |-> ParseJsonText(response.text)]
         ELSE [text |-> response.text]

\* the access-control-* and vary headers of the upstream response
IsCorsResponseHeader(name) == name \in {"access-control-allow-origin", "vary"}
CorsHeaders(headers) == SelectSeq(headers, LAMBDA p : IsCorsResponseHeader(Lower(p[1])))

ResponseHeaderSets ==
    {<<<<"content-type", "application/json">>>>,
     <<<<"content-type", "text/event-stream">>, <<"access-control-allow-origin", "*">>>>,
     <<<<"vary", "Origin">>>>}

StatusCodes == {200, 500}

UpstreamResponses ==
    [status_code : StatusCodes, headers : ResponseHeaderSets, text : BodyTexts]

(***************************************************************************)
(* The inputs of the server: configuration and one inbound request.        *)
(***************************************************************************)
None == JNull

TextPart(text) == JObj([type |-> JStr("text"), text |-> JStr(text)])

ToolMessage ==
    JObj([role |-> JStr("tool-call"),
          content |-> JList(<<TextPart("hi")>>),
          tool_calls |-> JNull])

\* request.body() and what json.loads makes of it
BodyBytes ==
    {"", "not json", "[]",
     "{\"messages\": [m]}",
     "{\"messages\": [m], \"stream\": true}",
     "{\"messages\": [m], \"stream\": \"false\"}"}

IsValidJson(body_bytes) == body_bytes \notin {"", "not json"}

JsonLoads(body_bytes) ==
    CASE body_bytes = "[]" -> JList(<<>>)
      [] body_bytes = "{\"messages\": [m]}" ->
            JObj([messages |-> JList(<<ToolMessage>>)])
      [] body_bytes = "{\"messages\": [m], \"stream\": true}" ->
            JObj([messages |-> JList(<<ToolMessage>>), stream |-> JBool(TRUE)])
      [] body_bytes = "{\"messages\": [m], \"stream\": \"false\"}" ->
            JObj([messages |-> JList(<<ToolMessage>>), stream |-> JStr("false")])
      [] OTHER -> JNull

\* dict(request.headers): the framework hands the names over in lower case
InboundHeaders ==
    {<<>>,
     <<<<"authorization", "Bearer old">>, <<"x-foo", "b">>, <<"cookie", "c">>,
       <<"origin", "https://app">>>>}

MergeHeaderSets ==
    {<<>>,
     <<<<"X-Foo", "a">>, <<"AUTHORIZATION", "key">>>>}

Requests ==
    [method : {"POST"}, path : {"v1/chat"}, headers : InboundHeaders, body_bytes : BodyBytes]
    \cup [method : {"GET"}, path : {"v1/chat"}, headers : InboundHeaders,
          body_bytes : {"", "not json"}]

\* a loaded token configuration: load_token_request_config sets every field
TokenConfigs ==
    {[url |-> "https://auth/token", method |-> "POST", headers |-> <<>>,
      data |-> <<>>, token_field |-> "access_token"]}

\* --flatten-content, --no-tool-roles, --remove-null-tool-calls of the server
ServerFlags ==
    {<<FALSE, FALSE, FALSE>>, <<TRUE, TRUE, FALSE>>, <<FALSE, FALSE, TRUE>>,
     <<TRUE, TRUE, TRUE>>}

DEFAULT_TARGET_URL == "https://openrouter.ai/api/v1/chat/completions"

(***************************************************************************)
(* State.                                                                  *)
(***************************************************************************)
VARIABLES
    mode,                   \* main(): "server" or "replay"
    TARGET_URL, FLATTEN_CONTENT, NO_TOOL_ROLES, REMOVE_NULL_TOOL_CALLS,
    ENABLE_LOGGING, MERGE_HEADERS, TOKEN_REQUEST_CONFIG, PROXY_DEBUG, CORS_MODE,
    request,                \* the inbound request of proxy()
    pc,                     \* where the handler (or the replay) stands
    incoming_body, incoming_headers, request_id, timestamp,
    body_to_send, filtered_headers, is_streaming,
    client,                 \* the upstream AsyncClient: "none", "open", "closed"
    response_cm,            \* the upstream response stream: "none", "open", "closed"
    response,               \* the upstream response, once received
    collected_chunks,
    reply,                  \* what the handler returned to the caller
    delivered,              \* the chunks yielded to the caller, in order
    received,               \* the chunks read from upstream, in order
    files,                  \* LOG_DIR: file name -> content
    file_writes,            \* the names of the files written, in order
    token_requests,         \* number of calls made to the token endpoint
    upstream_calls,         \* the requests sent to the target, in order
    raised,                 \* the exception the upstream call or stream raised, if any
    token_result,           \* what request_token returned or raised, if it was called
    disconnected,           \* the caller stopped consuming the StreamingResponse
    call,                   \* a call of one function on its own: name and arguments
    result,                 \* the values that the calls of `call` returned, in order
    exchanges,              \* the locals of each of several calls of proxy() in flight
    replay                  \* arguments, locals and result of replay_request_from_file

configVars == <<mode, TARGET_URL, FLATTEN_CONTENT, NO_TOOL_ROLES, REMOVE_NULL_TOOL_CALLS,
                ENABLE_LOGGING, MERGE_HEADERS, PROXY_DEBUG, CORS_MODE>>
preludeVars == <<request, incoming_body, incoming_headers, request_id, timestamp, body_to_send>>
streamVars == <<response_cm, collected_chunks, delivered, received>>
logVars == <<files, file_writes>>
unitVars == <<call, result>>

vars == <<configVars, TOKEN_REQUEST_CONFIG, preludeVars, pc, filtered_headers, is_streaming,
          client, response, streamVars, reply, logVars, token_requests, upstream_calls,
          raised, token_result, disconnected, replay, unitVars, exchanges>>

PROXY_URL == "http://proxy:8080"

(***************************************************************************)
(* The exchange log.                                                       *)
(***************************************************************************)
EmptyStore == [n \in {} |-> None]

\* open(filepath, "w") followed by json.dump
WriteFile(store, name, log_entry) ==
    [n \in DOMAIN store \cup {name} |->
        IF n = name THEN [valid_json |-> TRUE, data |-> log_entry] ELSE store[n]]

RequestFileName(ts, id) == <<ts, id, "request">>
ResponseFileName(ts, id) == <<ts, id, "response">>

\* datetime.utcnow().isoformat()
IsoNow == "2024-01-01T00:00:00"

RequestLogEntry(path, method, headers, body, id) ==
    [timestamp |-> IsoNow, request_id |-> id, path |-> path, method |-> method,
     headers |-> headers, body |-> body]

ResponseLogEntry(id, status_code, headers, body) ==
    [timestamp |-> IsoNow, request_id |-> id, status_code |-> status_code,
     headers |-> headers, body |-> body]

save_request_to_file(store, path, method, headers, body, id, ts) ==
    WriteFile(store, RequestFileName(ts, id), RequestLogEntry(path, method, headers, body, id))

save_response_to_file(store, id, ts, status_code, headers, body) ==
    WriteFile(store, ResponseFileName(ts, id), ResponseLogEntry(id, status_code, headers, body))

(***************************************************************************)
(* Responses to the caller.                                                *)
(***************************************************************************)
NoReply == [kind |-> "none"]
JSONResponse(status_code, content, headers) ==
    [kind |-> "json", status_code |-> status_code, content |-> content, headers |-> headers]
StreamingResponse(status_code, headers) ==
    [kind |-> "stream", status_code |-> status_code, media_type |-> "text/event-stream",
     headers |-> headers]
\* an exception that leaves proxy(): the framework answers 500
Unhandled(e) == [kind |-> "unhandled", status_code |-> 500, exc |-> e]

(***************************************************************************)
(* Init: main() has parsed the arguments and set the globals.              *)
(***************************************************************************)
InitLocals ==
    /\ pc = "start"
    /\ incoming_body = None
    /\ incoming_headers = <<>>
    /\ request_id = ""
    /\ timestamp = ""
    /\ body_to_send = None
    /\ filtered_headers = <<>>
    /\ is_streaming = FALSE
    /\ client = "none"
    /\ response_cm = "none"
    /\ response = None
    /\ collected_chunks = <<>>
    /\ reply = NoReply
    /\ delivered = <<>>
    /\ received = <<>>
    /\ file_writes = <<>>
    /\ token_requests = 0
    /\ upstream_calls = <<>>
    /\ raised = None
    /\ token_result = None
    /\ disconnected = FALSE
    /\ result = <<>>

InitServer ==
    /\ mode = "server"
    /\ TARGET_URL = DEFAULT_TARGET_URL
    /\ \E flags \in ServerFlags :
         /\ FLATTEN_CONTENT = flags[1]
         /\ NO_TOOL_ROLES = flags[2]
         /\ REMOVE_NULL_TOOL_CALLS = flags[3]
    /\ ENABLE_LOGGING \in BOOLEAN
    /\ MERGE_HEADERS \in MergeHeaderSets
    /\ TOKEN_REQUEST_CONFIG \in {None} \cup TokenConfigs
    /\ PROXY_DEBUG \in BOOLEAN
    /\ CORS_MODE \in {"none", "forward"}
    /\ request \in Requests
    /\ files = EmptyStore
    /\ replay = None
    /\ call = None
    /\ exchanges = <<>>
    /\ InitLocals

(***************************************************************************)
(* proxy(): from the entry to the first network call.                      *)
(***************************************************************************)
\* lines 738-744: json.loads raised on a body that was read
BodyRejectedNever(req) == FALSE

BodyRejected(req) ==
    /\ req.method \notin {"GET", "HEAD", "OPTIONS"}
    /\ req.body_bytes # ""
    /\ ~IsValidJson(req.body_bytes)

\* lines 737-742
IncomingBody(req) ==
    IF req.method \notin {"GET", "HEAD", "OPTIONS"} /\ req.body_bytes # ""
    THEN JsonLoads(req.body_bytes)
    ELSE None

\* lines 746-750
IncomingHeaders(req, merge_headers) ==
    IF merge_headers # <<>>
    THEN merge_headers_with_request(req.headers, merge_headers)
    ELSE req.headers

\* uuid.uuid4().hex and the clock, lines 753-754
NewRequestId == "req1"
NewTimestamp == "20240101_000000"

\* lines 735-788: body check, merge, request record, transforms, filter
ProxyBegin ==
    /\ mode = "server"
    /\ pc = "start"
    /\ IF BodyRejected(request)
       THEN /\ reply' = JSONResponse(400, [error |-> "Invalid JSON body"], <<>>)
            /\ pc' = "done"
            /\ UNCHANGED <<incoming_body, incoming_headers, request_id, timestamp,
                           body_to_send, filtered_headers, logVars>>
       ELSE /\ incoming_body' = IncomingBody(request)
            /\ incoming_headers' = IncomingHeaders(request, MERGE_HEADERS)
            /\ request_id' = NewRequestId
            /\ timestamp' = NewTimestamp
            /\ IF ENABLE_LOGGING
               THEN /\ files' = save_request_to_file(files, request.path, request.method,
                                    incoming_headers', incoming_body', request_id', timestamp')
                    /\ file_writes' = Append(file_writes, RequestFileName(timestamp', request_id'))
               ELSE UNCHANGED logVars
            /\ body_to_send' = TransformBody(incoming_body', FLATTEN_CONTENT, NO_TOOL_ROLES,
                                             REMOVE_NULL_TOOL_CALLS)
            /\ filtered_headers' = FilterHeaders(incoming_headers')
            /\ pc' = IF TOKEN_REQUEST_CONFIG # None THEN "token" ELSE "relay"
            /\ reply' = reply
    /\ UNCHANGED <<configVars, unitVars, exchanges, disconnected, raised, token_result, TOKEN_REQUEST_CONFIG,
                   request, is_streaming, client, response, streamVars, token_requests,
                   upstream_calls, replay>>

\* lines 789-797: request_token raised
TokenFailedNever(r) == FALSE

TokenFailed(r) == ~r.ok

\* lines 788-797: the token fetch and the bearer header
ProxyToken ==
    /\ mode = "server"
    /\ pc = "token"
    /\ \E answer \in TokenAnswers :
         LET r == request_token(TOKEN_REQUEST_CONFIG, answer)
         IN /\ TOKEN_REQUEST_CONFIG' = r.config
            /\ token_requests' = token_requests + 1
            /\ token_result' = [ok |-> r.ok, token |-> r.token, detail |-> r.detail]
            /\ IF ~TokenFailed(r)
               THEN /\ filtered_headers' = InstallBearer(filtered_headers, r.token)
                    /\ pc' = "relay"
                    /\ reply' = reply
               ELSE /\ reply' = JSONResponse(500,
                                   [error |-> "Token request failed: " \o r.detail], <<>>)
                    /\ pc' = "done"
                    /\ filtered_headers' = filtered_headers
    /\ UNCHANGED <<configVars, unitVars, exchanges, disconnected, raised, preludeVars, is_streaming, client,
                   response, streamVars, logVars, upstream_calls, replay>>

\* line 800
IsStreaming(body) ==
    IF IsDict(body) THEN Truthy(GetDefault(body, "stream", JBool(FALSE))) ELSE FALSE

UpstreamCall(method, url, headers, body, stream) ==
    [method |-> method, url |-> url, headers |-> headers, body |-> body, stream |-> stream]

\* lines 799-812 and 896-897: the client is created and the call is issued
ProxyRelay ==
    /\ mode = "server"
    /\ pc = "relay"
    /\ is_streaming' = IsStreaming(body_to_send)
    /\ client' = "open"
    /\ upstream_calls' = Append(upstream_calls,
           UpstreamCall(request.method, TARGET_URL, filtered_headers, body_to_send,
                        is_streaming'))
    /\ pc' = IF is_streaming' THEN "open_stream" ELSE "await_response"
    /\ UNCHANGED <<configVars, unitVars, exchanges, disconnected, raised, token_result, TOKEN_REQUEST_CONFIG,
                   preludeVars, filtered_headers, response, streamVars, reply, logVars,
                   token_requests, replay>>

(***************************************************************************)
(* The failure handlers of proxy(), lines 899-926.                         *)
(***************************************************************************)
RelayFailureStatusAlways502(e) == 502

RelayFailureStatus(e) ==
    IF IsProxyError(e) /\ MentionsProxyAuth(e.text) THEN 407 ELSE 502

RelayFailureContent(e, debug) ==
    IF IsProxyError(e)
    THEN IF MentionsProxyAuth(e.text)
         THEN [error |-> IF debug THEN ProxyAuthMessage \o " Details: " \o e.text
                         ELSE ProxyAuthMessage]
         ELSE [error |-> "Proxy error: " \o e.text]
    ELSE [error |-> IF debug
                    THEN "Request error: " \o e.text \o " (Proxy URL: " \o PROXY_URL \o ")"
                    ELSE "Request error: " \o e.text]

\* the effect of an exception `e` raised by the upstream call before a
\* response was returned: handled when it is a request error, else it
\* leaves the handler
RelayFailure(e) ==
    /\ raised' = e
    /\ IF IsRequestError(e)
       THEN /\ reply' = JSONResponse(RelayFailureStatus(e),
                              RelayFailureContent(e, PROXY_DEBUG), <<>>)
            /\ IF ENABLE_LOGGING
               THEN /\ files' = save_response_to_file(files, request_id, timestamp,
                                    RelayFailureStatus(e), <<>>,
                                    RelayFailureContent(e, PROXY_DEBUG))
                    /\ file_writes' = Append(file_writes,
                                           ResponseFileName(timestamp, request_id))
               ELSE UNCHANGED logVars
       ELSE /\ reply' = Unhandled(e)
            /\ UNCHANGED logVars

(***************************************************************************)
(* Non-streaming mode, lines 896-897 and 928-957.                          *)
(***************************************************************************)
\* the status code handed to JSONResponse, lines 950-957
RelayedStatusAsError(resp) == IF resp.status_code = 200 THEN 200 ELSE 502

RelayedStatus(resp) == resp.status_code

\* lines 942-948
ForwardedHeaders(resp, cors_mode) ==
    IF cors_mode = "forward" THEN CorsHeaders(resp.headers) ELSE <<>>

ProxyBufferedResponse ==
    /\ mode = "server"
    /\ pc = "await_response"
    /\ \E resp \in UpstreamResponses :
         /\ response' = resp
         /\ client' = "closed"
         /\ IF ENABLE_LOGGING
            THEN /\ files' = save_response_to_file(files, request_id, timestamp,
                                 RelayedStatus(resp), resp.headers, ResponseContent(resp))
                 /\ file_writes' = Append(file_writes, ResponseFileName(timestamp, request_id))
            ELSE UNCHANGED logVars
         /\ reply' = JSONResponse(RelayedStatus(resp), ResponseContent(resp),
                                  ForwardedHeaders(resp, CORS_MODE))
    /\ pc' = "done"
    /\ UNCHANGED <<configVars, unitVars, exchanges, disconnected, raised, token_result, TOKEN_REQUEST_CONFIG,
                   preludeVars, filtered_headers, is_streaming, streamVars, token_requests,
                   upstream_calls, replay>>

\* the failed call is issued again
ProxyBufferedFailureRetried ==
    /\ mode = "server"
    /\ pc = "await_response"
    /\ \E e \in Exceptions : raised' = e
    /\ client' = "closed"
    /\ pc' = "relay"
    /\ UNCHANGED <<configVars, unitVars, exchanges, disconnected, token_result, TOKEN_REQUEST_CONFIG,
                   preludeVars, filtered_headers, is_streaming, response, streamVars, reply,
                   logVars, token_requests, upstream_calls, replay>>

ProxyBufferedFailure ==
    /\ mode = "server"
    /\ pc = "await_response"
    /\ \E e \in Exceptions : RelayFailure(e)
    /\ client' = "closed"
    /\ pc' = "done"
    /\ UNCHANGED <<configVars, unitVars, exchanges, disconnected, token_result, TOKEN_REQUEST_CONFIG,
                   preludeVars, filtered_headers, is_streaming, response, streamVars,
                   token_requests, upstream_calls, replay>>

(***************************************************************************)
(* Streaming mode: opening the stream, lines 805-893.                      *)
(***************************************************************************)
StreamHeads ==
    [status_code : StatusCodes,
     headers : {h \in ResponseHeaderSets : DictHas(h, "content-type")}]

\* lines 815-823
StreamingHeaders(resp, cors_mode) ==
    <<<<"Cache-Control", "no-cache">>, <<"Connection", "keep-alive">>>>
    \o (IF cors_mode = "forward" THEN CorsHeaders(resp.headers) ELSE <<>>)

\* line 886: the status code of the StreamingResponse
StreamStatusAlways200(resp) == 200

StreamStatus(resp) == resp.status_code

\* the response headers arrived: the handler returns the StreamingResponse
ProxyStreamOpened ==
    /\ mode = "server"
    /\ pc = "open_stream"
    /\ \E resp \in StreamHeads :
         /\ response' = resp
         /\ reply' = StreamingResponse(StreamStatus(resp), StreamingHeaders(resp, CORS_MODE))
    /\ response_cm' = "open"
    /\ pc' = "gen_start"
    /\ UNCHANGED <<configVars, unitVars, exchanges, disconnected, raised, token_result, TOKEN_REQUEST_CONFIG,
                   preludeVars, filtered_headers, is_streaming, client, collected_chunks,
                   delivered, received, logVars, token_requests, upstream_calls, replay>>

\* lines 890-893, then the handlers of lines 899-926
ProxyStreamOpenFailure ==
    /\ mode = "server"
    /\ pc = "open_stream"
    /\ \E e \in Exceptions : RelayFailure(e)
    /\ client' = "closed"
    /\ pc' = "done"
    /\ UNCHANGED <<configVars, unitVars, exchanges, disconnected, token_result, TOKEN_REQUEST_CONFIG,
                   preludeVars, filtered_headers, is_streaming, response, streamVars,
                   token_requests, upstream_calls, replay>>

(***************************************************************************)
(* stream_response_wrapper, lines 825-881.                                 *)
(***************************************************************************)
Chunks == {"", "da", "ta"}

RECURSIVE Concat(_)
Concat(chunks) == IF chunks = <<>> THEN "" ELSE Head(chunks) \o Concat(Tail(chunks))

\* line 850: b''.join(collected_chunks).decode('utf-8', errors='replace'),
\* on chunks that are ASCII text
FullResponseLastChunk(chunks) == chunks[Len(chunks)]

FullResponse(chunks) == Concat(chunks)

\* lines 853-878: the chunk that reports a failure
StreamFailureContent(e, debug) ==
    IF IsRequestError(e)
    THEN RelayFailureContent(e, debug)
    ELSE [error |-> "Streaming error: " \o e.text]

\* lines 864 and 874: the status of the record of a failure
StreamFailureLogStatus(e) == 502

\* lines 863-864 and 873-874: proxy and request errors are recorded
StreamFailureLogged(e) == IsRequestError(e)

\* the except clauses: record the failure, yield one error chunk
StreamFailure(e) ==
    /\ raised' = e
    /\ IF ENABLE_LOGGING /\ StreamFailureLogged(e)
       THEN /\ files' = save_response_to_file(files, request_id, timestamp,
                            StreamFailureLogStatus(e), <<>>,
                            StreamFailureContent(e, PROXY_DEBUG))
            /\ file_writes' = Append(file_writes, ResponseFileName(timestamp, request_id))
       ELSE UNCHANGED logVars
    /\ delivered' = Append(delivered, DumpError(StreamFailureContent(e, PROXY_DEBUG)))
    /\ pc' = "gen_failed"

\* lines 832-836: the parsed body is saved; when json.loads or that save
\* raises, the bare except saves the decoded text instead
StreamErrorRecordBody(error_content, first_save_raised) ==
    IF IsJsonText(error_content) /\ ~first_save_raised
    THEN [json |-> ParseJsonText(error_content)]
    ELSE [text |-> error_content]

\* the files opened for writing by lines 832-836: a save that raises in
\* json.dump has opened and truncated its file, and the fallback opens it again
StreamErrorWrites(name, first_save_raised) ==
    IF first_save_raised THEN <<name, name>> ELSE <<name>>

\* lines 828-837: the body of a non-200 response is read, recorded and
\* yielded as one chunk
GenErrorBody ==
    /\ mode = "server"
    /\ pc = "gen_start"
    /\ response.status_code # 200
    /\ \E error_content \in BodyTexts, first_save_raised \in BOOLEAN :
         /\ first_save_raised => ENABLE_LOGGING /\ IsJsonText(error_content)
         /\ IF ENABLE_LOGGING
            THEN /\ files' = save_response_to_file(files, request_id, timestamp,
                                 response.status_code, response.headers,
                                 StreamErrorRecordBody(error_content, first_save_raised))
                 /\ file_writes' = file_writes
                        \o StreamErrorWrites(ResponseFileName(timestamp, request_id),
                                             first_save_raised)
            ELSE UNCHANGED logVars
         /\ received' = Append(received, error_content)
         /\ delivered' = Append(delivered, error_content)
    /\ pc' = "gen_error_yielded"
    /\ UNCHANGED <<configVars, unitVars, exchanges, disconnected, raised, token_result, TOKEN_REQUEST_CONFIG,
                   preludeVars, filtered_headers, is_streaming, client, response, response_cm,
                   collected_chunks, reply, token_requests, upstream_calls, replay>>

\* resp.aread() raised
GenErrorBodyFailure ==
    /\ mode = "server"
    /\ pc = "gen_start"
    /\ response.status_code # 200
    /\ \E e \in Exceptions : StreamFailure(e)
    /\ UNCHANGED <<configVars, unitVars, exchanges, disconnected, token_result, TOKEN_REQUEST_CONFIG,
                   preludeVars, filtered_headers, is_streaming, client, response, response_cm,
                   collected_chunks, received, reply, token_requests, upstream_calls, replay>>

\* the chunks yielded for a chunk read from upstream, lines 843-846
YieldedTwice(chunk) == <<chunk, chunk>>

Yielded(chunk) == IF chunk # "" THEN <<chunk>> ELSE <<>>

\* lines 842-846: one chunk arrives and is yielded
GenChunk ==
    /\ mode = "server"
    /\ pc \in {"gen_start", "gen_loop"}
    /\ response.status_code = 200
    /\ Len(received) < MaxChunks
    /\ \E chunk \in Chunks :
         /\ received' = Append(received, chunk)
         /\ collected_chunks' = IF ENABLE_LOGGING
                                THEN collected_chunks \o Yielded(chunk)
                                ELSE collected_chunks
         /\ delivered' = delivered \o Yielded(chunk)
    /\ pc' = "gen_loop"
    /\ UNCHANGED <<configVars, unitVars, exchanges, disconnected, raised, token_result, TOKEN_REQUEST_CONFIG,
                   preludeVars, filtered_headers, is_streaming, client, response, response_cm,
                   reply, logVars, token_requests, upstream_calls, replay>>

\* lines 848-851 and 879-881: the upstream stream ended
GenEnd ==
    /\ mode = "server"
    /\ pc \in {"gen_start", "gen_loop"}
    /\ response.status_code = 200
    /\ IF ENABLE_LOGGING /\ collected_chunks # <<>>
       THEN /\ files' = save_response_to_file(files, request_id, timestamp, 200,
                            response.headers, [text |-> FullResponse(collected_chunks)])
            /\ file_writes' = Append(file_writes, ResponseFileName(timestamp, request_id))
       ELSE UNCHANGED logVars
    /\ response_cm' = "closed"
    /\ client' = "closed"
    /\ pc' = "done"
    /\ UNCHANGED <<configVars, unitVars, exchanges, disconnected, raised, token_result, TOKEN_REQUEST_CONFIG,
                   preludeVars, filtered_headers, is_streaming, response, collected_chunks,
                   delivered, received, reply, token_requests, upstream_calls, replay>>

\* reading the next chunk raised
GenChunkFailure ==
    /\ mode = "server"
    /\ pc \in {"gen_start", "gen_loop"}
    /\ response.status_code = 200
    /\ \E e \in Exceptions : StreamFailure(e)
    /\ UNCHANGED <<configVars, unitVars, exchanges, disconnected, token_result, TOKEN_REQUEST_CONFIG,
                   preludeVars, filtered_headers, is_streaming, client, response, response_cm,
                   collected_chunks, received, reply, token_requests, upstream_calls, replay>>

\* lines 838 and 879-881: after the last yield the generator returns
\* through the finally clause
GenFinally ==
    /\ mode = "server"
    /\ pc \in {"gen_error_yielded", "gen_failed"}
    /\ response_cm' = "closed"
    /\ client' = "closed"
    /\ pc' = "done"
    /\ UNCHANGED <<configVars, unitVars, exchanges, disconnected, raised, token_result, TOKEN_REQUEST_CONFIG,
                   preludeVars, filtered_headers, is_streaming, response, collected_chunks,
                   delivered, received, reply, logVars, token_requests, upstream_calls, replay>>

\* line 885: the caller goes away before the first __anext__: the body of
\* the generator, its finally clause included, never runs
GenAbandoned ==
    /\ mode = "server"
    /\ pc = "gen_start"
    /\ ~disconnected
    /\ disconnected' = TRUE
    /\ pc' = "done"
    /\ UNCHANGED <<configVars, unitVars, exchanges, raised, token_result, TOKEN_REQUEST_CONFIG, preludeVars,
                   filtered_headers, is_streaming, client, response, streamVars, reply, logVars,
                   token_requests, upstream_calls, replay>>

\* lines 879-881: the caller goes away while the generator is suspended at a
\* yield or in a read; the generator is unwound from there, no except clause
\* matches and the finally clause runs
GenClosed ==
    /\ mode = "server"
    /\ pc \in {"gen_start", "gen_loop", "gen_error_yielded", "gen_failed"}
    /\ ~disconnected
    /\ disconnected' = TRUE
    /\ response_cm' = "closed"
    /\ client' = "closed"
    /\ pc' = "done"
    /\ UNCHANGED <<configVars, unitVars, exchanges, raised, token_result, TOKEN_REQUEST_CONFIG, preludeVars,
                   filtered_headers, is_streaming, response, collected_chunks, delivered,
                   received, reply, logVars, token_requests, upstream_calls, replay>>

(***************************************************************************)
(* replay_request_from_file, lines 558-732.                                *)
(***************************************************************************)
\* str.upper() on the method names that occur
Upper(s) ==
    CASE s = "post" -> "POST"
      [] s = "get" -> "GET"
      [] OTHER -> s

\* files of the log directory that no run of this server wrote
EditedFile == <<"20230101_000000", "edited", "request">>
BrokenFile == <<"20230101_000000", "broken", "request">>
ListFile == <<"20230101_000000", "list", "request">>
MissingFile == <<"20230101_000000", "missing", "request">>

EditedEntry ==
    [timestamp |-> "2023-01-01T00:00:00", request_id |-> "edited", method |-> "post",
     headers |-> <<<<"Authorization", "Bearer a">>, <<"authorization", "Bearer b">>,
                   <<"X-Foo", "1">>, <<"x-foo", "2">>, <<"Cookie", "c">>>>]

\* the log directory after an earlier server run handled `req`
PersistedStore(req, merge_headers) ==
    LET written == save_request_to_file(EmptyStore, req.path, req.method,
                       IncomingHeaders(req, merge_headers), IncomingBody(req),
                       NewRequestId, NewTimestamp)
    IN [n \in DOMAIN written \cup {EditedFile, BrokenFile, ListFile} |->
           CASE n = EditedFile -> [valid_json |-> TRUE, data |-> EditedEntry]
             [] n = BrokenFile -> [valid_json |-> FALSE, data |-> None]
             [] n = ListFile -> [valid_json |-> TRUE, data |-> JList(<<>>)]
             [] OTHER -> written[n]]

ReplayArgs ==
    [filepath : {RequestFileName(NewTimestamp, NewRequestId), EditedFile, BrokenFile,
                 ListFile, MissingFile},
     target_url : {"", "https://test-api.com"},
     flatten_content : BOOLEAN, no_tool_roles : BOOLEAN, remove_null_tool_calls : BOOLEAN,
     merge_headers : MergeHeaderSets,
     token_request_config : {None} \cup TokenConfigs]

InitReplay ==
    /\ mode = "replay"
    /\ TARGET_URL = DEFAULT_TARGET_URL
    /\ FLATTEN_CONTENT = FALSE
    /\ NO_TOOL_ROLES = FALSE
    /\ REMOVE_NULL_TOOL_CALLS = FALSE
    /\ ENABLE_LOGGING = FALSE
    /\ MERGE_HEADERS = <<>>
    /\ TOKEN_REQUEST_CONFIG = None
    /\ PROXY_DEBUG = FALSE
    /\ CORS_MODE = "none"
    /\ request = None
    /\ \E req \in {r \in Requests : ~BodyRejected(r)}, mh \in MergeHeaderSets,
          args \in ReplayArgs :
         /\ files = PersistedStore(req, mh)
         /\ replay = [args |-> args, origin |-> [request |-> req, merge_headers |-> mh],
                      token_request_config |-> args.token_request_config,
                      method |-> "", path |-> "", url_to_use |-> "", headers |-> <<>>,
                      body |-> None,
                      result |-> None]
    /\ call = None
    /\ exchanges = <<>>
    /\ InitLocals

\* log_data.get(key, default)
EntryGet(log_data, key, default) ==
    IF key \in DOMAIN log_data THEN log_data[key] ELSE default

ReplayError(error, details) == [success |-> FALSE, error |-> error, details |-> details]

\* lines 560-612: read the file, transform the body, merge and filter
ReplayBegin ==
    /\ mode = "replay"
    /\ pc = "start"
    /\ LET filepath == replay.args.filepath
           args == replay.args
       IN IF filepath \notin DOMAIN files
          THEN /\ replay' = [replay EXCEPT !.result =
                     ReplayError("File not found", "The specified request file does not exist")]
               /\ pc' = "done"
               /\ UNCHANGED filtered_headers
          ELSE IF ~files[filepath].valid_json
          THEN /\ replay' = [replay EXCEPT !.result =
                     ReplayError("Invalid JSON in log file", "JSONDecodeError")]
               /\ pc' = "done"
               /\ UNCHANGED filtered_headers
          ELSE IF "t" \in DOMAIN files[filepath].data
          THEN /\ replay' = [replay EXCEPT !.result =
                     ReplayError("Error reading log file", "AttributeError")]
               /\ pc' = "done"
               /\ UNCHANGED filtered_headers
          ELSE LET log_data == files[filepath].data
                   headers == EntryGet(log_data, "headers", <<>>)
                   body == EntryGet(log_data, "body", JObj(<<>>))
                   merged == IF args.merge_headers # <<>>
                             THEN merge_headers_with_request(headers, args.merge_headers)
                             ELSE headers
               IN /\ replay' = [replay EXCEPT
                        !.path = EntryGet(log_data, "path", ""),
                        !.headers = merged,
                        !.method = EntryGet(log_data, "method", "POST"),
                        !.url_to_use = IF args.target_url # "" THEN args.target_url
                                       ELSE TARGET_URL,
                        !.body = TransformBody(body, args.flatten_content,
                                     args.no_tool_roles, args.remove_null_tool_calls)]
                  /\ filtered_headers' = FilterHeaders(merged)
                  /\ pc' = IF args.token_request_config # None THEN "replay_token"
                           ELSE "replay_send"
    /\ UNCHANGED <<configVars, unitVars, exchanges, disconnected, raised, token_result, TOKEN_REQUEST_CONFIG,
                   preludeVars, is_streaming, client, response, streamVars, reply, logVars,
                   token_requests, upstream_calls>>

\* lines 615-633
ReplayToken ==
    /\ mode = "replay"
    /\ pc = "replay_token"
    /\ \E answer \in TokenAnswers :
         LET r == request_token(replay.token_request_config, answer)
         IN /\ token_requests' = token_requests + 1
            /\ token_result' = [ok |-> r.ok, token |-> r.token, detail |-> r.detail]
            /\ IF r.ok
               THEN /\ filtered_headers' = InstallBearer(filtered_headers, r.token)
                    /\ replay' = [replay EXCEPT !.token_request_config = r.config]
                    /\ pc' = "replay_send"
               ELSE /\ replay' = [replay EXCEPT !.token_request_config = r.config,
                                      !.result = ReplayError("Token request failed", r.detail)]
                    /\ pc' = "done"
                    /\ filtered_headers' = filtered_headers
    /\ UNCHANGED <<configVars, unitVars, exchanges, disconnected, raised, TOKEN_REQUEST_CONFIG, preludeVars,
                   is_streaming, client, response, streamVars, reply, logVars, upstream_calls>>

\* lines 638-644: POST and other methods carry the body, GET does not
ReplayCallAlwaysPost(method, url, headers, body) ==
    UpstreamCall("POST", url, headers, body, FALSE)

ReplayCall(method, url, headers, body) ==
    IF Upper(method) = "POST" THEN UpstreamCall("POST", url, headers, body, FALSE)
    ELSE IF Upper(method) = "GET" THEN UpstreamCall("GET", url, headers, None, FALSE)
    ELSE UpstreamCall(method, url, headers, body, FALSE)

ReplaySend ==
    /\ mode = "replay"
    /\ pc = "replay_send"
    /\ client' = "open"
    /\ upstream_calls' = Append(upstream_calls,
           ReplayCall(replay.method, replay.url_to_use, filtered_headers, replay.body))
    /\ pc' = "replay_await"
    /\ UNCHANGED <<configVars, unitVars, exchanges, disconnected, raised, token_result, TOKEN_REQUEST_CONFIG,
                   preludeVars, filtered_headers, is_streaming, response, streamVars, reply,
                   logVars, token_requests, replay>>

\* lines 646-683
ReplayResponse ==
    /\ mode = "replay"
    /\ pc = "replay_await"
    /\ \E resp \in UpstreamResponses :
         /\ response' = resp
         /\ replay' = [replay EXCEPT !.result =
                [success |-> TRUE,
                 request |-> [method |-> replay.method, path |-> replay.path,
                              url |-> replay.url_to_use, headers |-> filtered_headers,
                              body |-> replay.body],
                 response |-> [status_code |-> resp.status_code, headers |-> resp.headers,
                               body |-> ResponseContent(resp)]]]
    /\ client' = "closed"
    /\ pc' = "done"
    /\ UNCHANGED <<configVars, unitVars, exchanges, disconnected, raised, token_result, TOKEN_REQUEST_CONFIG,
                   preludeVars, filtered_headers, is_streaming, streamVars, reply, logVars,
                   token_requests, upstream_calls>>

\* lines 685-717
ReplayFailureErrorOneKind(e) ==
    IF IsRequestError(e) THEN "Request error" ELSE "Unexpected error during request"

ReplayFailureError(e) ==
    IF IsTimeoutException(e) THEN "Request timeout"
    ELSE IF IsRequestError(e) THEN "Request error"
    ELSE "Unexpected error during request"

ReplayFailureRecorded ==
    /\ mode = "replay"
    /\ pc = "replay_await"
    /\ \E e \in Exceptions :
         /\ raised' = e
         /\ replay' = [replay EXCEPT !.result = ReplayError(ReplayFailureError(e), e.text)]
         /\ files' = save_response_to_file(files, NewRequestId, NewTimestamp, 502, <<>>,
                          [error |-> e.text])
         /\ file_writes' = Append(file_writes, ResponseFileName(NewTimestamp, NewRequestId))
    /\ client' = "closed"
    /\ pc' = "done"
    /\ UNCHANGED <<configVars, unitVars, exchanges, disconnected, token_result, TOKEN_REQUEST_CONFIG,
                   preludeVars, filtered_headers, is_streaming, response, streamVars, reply,
                   token_requests, upstream_calls>>

ReplayFailure ==
    /\ mode = "replay"
    /\ pc = "replay_await"
    /\ \E e \in Exceptions :
         /\ raised' = e
         /\ replay' = [replay EXCEPT !.result = ReplayError(ReplayFailureError(e), e.text)]
    /\ client' = "closed"
    /\ pc' = "done"
    /\ UNCHANGED <<configVars, unitVars, exchanges, disconnected, token_result, TOKEN_REQUEST_CONFIG,
                   preludeVars, filtered_headers, is_streaming, response, streamVars, reply,
                   logVars, token_requests, upstream_calls>>

(***************************************************************************)
(* The header merge and the body transforms called on their own, on a      *)
(* wider range of arguments than one server run sees.                      *)
(***************************************************************************)
UnitHeaders ==
    {<<>>,
     <<<<"x-foo", "b">>>>,
     <<<<"authorization", "Bearer old">>, <<"x-foo", "b">>, <<"cookie", "c">>>>,
     EditedEntry.headers}

\* the mapping of a --merge-headers file, in the order of the file
UnitMergeHeaders ==
    {<<>>,
     <<<<"X-Foo", "a">>>>,
     <<<<"X-Foo", "a">>, <<"AUTHORIZATION", "key">>>>,
     <<<<"X-Foo", "a">>, <<"x-foo", "b">>>>}

UnitMessages ==
    {JObj([role |-> JStr("user"), content |-> JList(<<TextPart("hi")>>)]),
     ToolMessage,
     JObj([role |-> JStr("tool-response"),
           content |-> JList(<<JObj([type |-> JStr("text"),
                                     text |-> JList(<<TextPart("hi")>>)])>>),
           tool_calls |-> JList(<<>>)]),
     JObj([content |-> JList(<<JObj([type |-> JStr("text"), text |-> JNum(7)])>>),
           tool_calls |-> JObj(<<>>)]),
     JObj([role |-> JStr("assistant"), content |-> JStr("plain"), tool_calls |-> JNull]),
     JObj([role |-> JNum(7), content |-> JList(<<TextPart("a"), TextPart("b")>>)]),
     JStr("tool-call")}

UnitBodies ==
    {JList(<<>>), JObj([messages |-> JStr("none")]), JObj([model |-> JStr("m")])}
    \cup {JObj([model |-> JStr("m"), messages |-> JList(<<m>>)]) : m \in UnitMessages}
    \cup {JObj([messages |-> JList(<<m1, m2>>)]) : m1 \in UnitMessages, m2 \in UnitMessages}

\* two or all three of the body transforms, in every order
TransformNames ==
    {"flatten_content_in_body", "replace_tool_roles_in_body", "remove_null_tool_calls_in_body"}

TransformOrders ==
    {order \in [1..2 -> TransformNames] \cup [1..3 -> TransformNames] :
        \A i, j \in DOMAIN order : order[i] = order[j] => i = j}

ApplyTransform(name, body) ==
    CASE name = "flatten_content_in_body" -> flatten_content_in_body(body)
      [] name = "replace_tool_roles_in_body" -> replace_tool_roles_in_body(body)
      [] name = "remove_null_tool_calls_in_body" -> remove_null_tool_calls_in_body(body)

RECURSIVE ApplyInOrder(_, _)
ApplyInOrder(body, order) ==
    IF order = <<>> THEN body
    ELSE ApplyInOrder(ApplyTransform(Head(order), body), Tail(order))

\* what the token endpoint may do, JSON bodies that are not objects included
UnitTokenAnswers ==
    TokenAnswers
    \cup {[kind |-> "response", status_code |-> 401, is_json |-> FALSE, data |-> JNull],
          [kind |-> "response", status_code |-> 200, is_json |-> TRUE, data |-> JList(<<>>)],
          [kind |-> "response", status_code |-> 200, is_json |-> TRUE,
           data |-> JList(<<JStr("access_token")>>)],
          [kind |-> "response", status_code |-> 200, is_json |-> TRUE, data |-> JStr("ok")],
          [kind |-> "response", status_code |-> 200, is_json |-> TRUE, data |-> JNum(7)],
          [kind |-> "response", status_code |-> 200, is_json |-> TRUE, data |-> JNull],
          [kind |-> "response", status_code |-> 200, is_json |-> TRUE,
           data |-> JObj([access_token |-> JNull])],
          [kind |-> "response", status_code |-> 200, is_json |-> TRUE,
           data |-> JObj([access_token |-> JNum(7)])],
          [kind |-> "response", status_code |-> 200, is_json |-> TRUE,
           data |-> JObj([access_token |-> JObj([jwt |-> JStr("tok2")])])]}

UnitTokenConfigs ==
    TokenConfigs
    \cup {[url |-> "https://auth/token", method |-> "GET",
           headers |-> <<<<"X-Foo", "a">>>>, data |-> <<>>, token_field |-> "jwt"]}

UnitCalls ==
    [fn : {"merge_headers_with_request"}, request_headers : UnitHeaders,
     merge_headers : UnitMergeHeaders]
    \cup [fn : {"request_token"}, config : UnitTokenConfigs, answer : UnitTokenAnswers]
    \cup [fn : {"transforms"}, body : UnitBodies, order : TransformOrders]
    \cup [fn : {"flatten_content_in_body", "replace_tool_roles_in_body",
                "remove_null_tool_calls_in_body"},
          body : UnitBodies]

InitUnit ==
    /\ mode = "unit"
    /\ TARGET_URL = DEFAULT_TARGET_URL
    /\ FLATTEN_CONTENT = FALSE
    /\ NO_TOOL_ROLES = FALSE
    /\ REMOVE_NULL_TOOL_CALLS = FALSE
    /\ ENABLE_LOGGING = FALSE
    /\ MERGE_HEADERS = <<>>
    /\ TOKEN_REQUEST_CONFIG = None
    /\ PROXY_DEBUG = FALSE
    /\ CORS_MODE = "none"
    /\ request = None
    /\ files = EmptyStore
    /\ replay = None
    /\ call \in UnitCalls
    /\ exchanges = <<>>
    /\ InitLocals

\* the frame of a call of a pure function
UnitFrame ==
    UNCHANGED <<configVars, call, exchanges, disconnected, raised, token_result, TOKEN_REQUEST_CONFIG,
                preludeVars, filtered_headers, is_streaming, client, response, streamVars,
                reply, logVars, token_requests, upstream_calls, replay>>

UnitMerge ==
    /\ mode = "unit"
    /\ pc = "start"
    /\ call.fn = "merge_headers_with_request"
    /\ result' = <<merge_headers_with_request(call.request_headers, call.merge_headers)>>
    /\ pc' = "done"
    /\ UnitFrame

\* the function applied to the body, then to its own output
UnitFlatten ==
    /\ mode = "unit"
    /\ pc \in {"start", "applied"}
    /\ call.fn = "flatten_content_in_body"
    /\ result' = Append(result, flatten_content_in_body(
                     IF result = <<>> THEN call.body ELSE result[Len(result)]))
    /\ pc' = IF pc = "start" THEN "applied" ELSE "done"
    /\ UnitFrame

UnitReplaceToolRoles ==
    /\ mode = "unit"
    /\ pc = "start"
    /\ call.fn = "replace_tool_roles_in_body"
    /\ result' = <<replace_tool_roles_in_body(call.body)>>
    /\ pc' = "done"
    /\ UnitFrame

UnitRemoveNullToolCalls ==
    /\ mode = "unit"
    /\ pc = "start"
    /\ call.fn = "remove_null_tool_calls_in_body"
    /\ result' = <<remove_null_tool_calls_in_body(call.body)>>
    /\ pc' = "done"
    /\ UnitFrame

UnitRequestToken ==
    /\ mode = "unit"
    /\ pc = "start"
    /\ call.fn = "request_token"
    /\ result' = <<request_token(call.config, call.answer)>>
    /\ pc' = "done"
    /\ UnitFrame

UnitTransformsInOrder ==
    /\ mode = "unit"
    /\ pc = "start"
    /\ call.fn = "transforms"
    /\ result' = <<ApplyInOrder(call.body, call.order)>>
    /\ pc' = "done"
    /\ UnitFrame

UnitNext ==
    \/ UnitMerge
    \/ UnitFlatten
    \/ UnitReplaceToolRoles
    \/ UnitRemoveNullToolCalls
    \/ UnitRequestToken
    \/ UnitTransformsInOrder

SpecUnit == InitUnit /\ [][UnitNext]_vars

(***************************************************************************)
(* Several calls of proxy() in flight on one event loop.  Each call has    *)
(* its own locals and its own upstream client (line 803), and is suspended *)
(* only in its network calls; LOG_DIR is shared.                           *)
(***************************************************************************)
Exchanges == {1, 2}

\* what the caller and the upstream connection of one exchange carry
ExchangeTag(r) == IF r = 1 THEN "one" ELSE "two"

\* line 753: uuid.uuid4().hex, an id that no earlier call drew
Uuid4Repeated(drawn) == "req1"

Uuid4(drawn) == CHOOSE id \in {"req1", "req2"} : id \notin drawn

\* line 754: the clock read to the second, never before an earlier reading
UtcNow(earlier) ==
    LET Seconds == <<"20240101_000000", "20240101_000001">>
    IN {Seconds[i] : i \in {k \in 1..Len(Seconds) :
                              \A j \in 1..Len(Seconds) : Seconds[j] \in earlier => j <= k}}

\* the calls that passed lines 753-754
Begun == {r \in Exchanges : exchanges[r].pc # "start"}

InitConcurrent ==
    /\ mode = "concurrent"
    /\ TARGET_URL = DEFAULT_TARGET_URL
    /\ FLATTEN_CONTENT = FALSE
    /\ NO_TOOL_ROLES = FALSE
    /\ REMOVE_NULL_TOOL_CALLS = FALSE
    /\ ENABLE_LOGGING = TRUE
    /\ MERGE_HEADERS = <<>>
    /\ TOKEN_REQUEST_CONFIG = None
    /\ PROXY_DEBUG = FALSE
    /\ CORS_MODE = "none"
    /\ request = None
    /\ files = EmptyStore
    /\ replay = None
    /\ call = None
    /\ exchanges = [r \in Exchanges |->
          [pc |-> "start", request |-> None, incoming_body |-> None,
           incoming_headers |-> <<>>, request_id |-> "", timestamp |-> "",
           body_to_send |-> None, filtered_headers |-> <<>>, is_streaming |-> FALSE,
           response |-> None, collected_chunks |-> <<>>, received |-> <<>>,
           raised |-> None, disconnected |-> FALSE]]
    /\ InitLocals

\* the steps of the exchanges leave the state of the single handler alone
ConcurrentFrame ==
    UNCHANGED <<configVars, unitVars, disconnected, raised, token_result,
                TOKEN_REQUEST_CONFIG, preludeVars, pc, filtered_headers, is_streaming,
                client, response, streamVars, reply, token_requests, upstream_calls, replay>>

\* save_response_to_file called with the id and timestamp of exchange `x`
SaveExchangeResponse(x, status_code, headers, body) ==
    IF ENABLE_LOGGING
    THEN /\ files' = save_response_to_file(files, x.request_id, x.timestamp, status_code,
                                           headers, body)
         /\ file_writes' = Append(file_writes, ResponseFileName(x.timestamp, x.request_id))
    ELSE UNCHANGED logVars

\* lines 735-812: from the entry of proxy() to its first network call; the
\* bodies of the requests are JSON and no token is configured
ExchangeBegin ==
    /\ mode = "concurrent"
    /\ \E r \in Exchanges :
         /\ exchanges[r].pc = "start"
         /\ \E req \in [method : {"POST"}, path : {"v1/chat"},
                        headers : {<<<<"x-exchange", ExchangeTag(r)>>>>},
                        body_bytes : {"{\"messages\": [m]}",
                                      "{\"messages\": [m], \"stream\": true}"}],
               ts \in UtcNow({exchanges[q].timestamp : q \in Begun}) :
              LET id == Uuid4({exchanges[q].request_id : q \in Begun})
                  body == IncomingBody(req)
                  headers == IncomingHeaders(req, MERGE_HEADERS)
                  to_send == TransformBody(body, FLATTEN_CONTENT, NO_TOOL_ROLES,
                                           REMOVE_NULL_TOOL_CALLS)
              IN /\ ~BodyRejected(req)
                 /\ exchanges' = [exchanges EXCEPT ![r] =
                        [@ EXCEPT !.request = req,
                                  !.incoming_body = body,
                                  !.incoming_headers = headers,
                                  !.request_id = id,
                                  !.timestamp = ts,
                                  !.body_to_send = to_send,
                                  !.filtered_headers = FilterHeaders(headers),
                                  !.is_streaming = IsStreaming(to_send),
                                  !.pc = IF IsStreaming(to_send) THEN "open_stream"
                                         ELSE "await_response"]]
                 /\ IF ENABLE_LOGGING
                    THEN /\ files' = save_request_to_file(files, req.path, req.method,
                                                          headers, body, id, ts)
                         /\ file_writes' = Append(file_writes, RequestFileName(ts, id))
                    ELSE UNCHANGED logVars
    /\ ConcurrentFrame

\* lines 896-897 and 928-957
ExchangeBufferedResponse ==
    /\ mode = "concurrent"
    /\ \E r \in Exchanges :
         /\ exchanges[r].pc = "await_response"
         /\ \E resp \in [status_code : StatusCodes,
                         headers : {<<<<"content-type", "application/json">>>>},
                         text : {ExchangeTag(r)}] :
              /\ exchanges' = [exchanges EXCEPT ![r] =
                     [@ EXCEPT !.response = resp, !.pc = "done"]]
              /\ SaveExchangeResponse(exchanges[r], RelayedStatus(resp), resp.headers,
                                      ResponseContent(resp))
    /\ ConcurrentFrame

\* lines 899-926: the upstream call raised before a response was returned
ExchangeFailure ==
    /\ mode = "concurrent"
    /\ \E r \in Exchanges :
         /\ exchanges[r].pc \in {"await_response", "open_stream"}
         /\ \E e \in {x \in Exceptions : x.text \in {"timed out", "boom"}} :
              /\ exchanges' = [exchanges EXCEPT ![r] = [@ EXCEPT !.raised = e, !.pc = "done"]]
              /\ IF IsRequestError(e)
                 THEN SaveExchangeResponse(exchanges[r], RelayFailureStatus(e), <<>>,
                                           RelayFailureContent(e, PROXY_DEBUG))
                 ELSE UNCHANGED logVars
    /\ ConcurrentFrame

\* lines 809-812 and 883-888: the response headers of a stream arrived
ExchangeStreamOpened ==
    /\ mode = "concurrent"
    /\ \E r \in Exchanges :
         /\ exchanges[r].pc = "open_stream"
         /\ \E resp \in [status_code : StatusCodes,
                         headers : {<<<<"content-type", "text/event-stream">>>>}] :
              exchanges' = [exchanges EXCEPT ![r] =
                  [@ EXCEPT !.response = resp, !.pc = "gen_start"]]
    /\ UNCHANGED logVars
    /\ ConcurrentFrame

\* lines 828-837: the body of a non-200 stream is read, recorded and yielded
ExchangeErrorBody ==
    /\ mode = "concurrent"
    /\ \E r \in Exchanges :
         /\ exchanges[r].pc = "gen_start"
         /\ exchanges[r].response.status_code # 200
         /\ LET error_content == ExchangeTag(r)
            IN /\ exchanges' = [exchanges EXCEPT ![r] =
                      [@ EXCEPT !.received = Append(@, error_content),
                                !.pc = "gen_error_yielded"]]
               /\ SaveExchangeResponse(exchanges[r], exchanges[r].response.status_code,
                                       exchanges[r].response.headers,
                                       StreamErrorRecordBody(error_content, FALSE))
    /\ ConcurrentFrame

\* lines 842-846: one chunk arrives and is yielded
ExchangeChunk ==
    /\ mode = "concurrent"
    /\ \E r \in Exchanges :
         /\ exchanges[r].pc \in {"gen_start", "gen_loop"}
         /\ exchanges[r].response.status_code = 200
         /\ Len(exchanges[r].received) < MaxChunks
         /\ \E chunk \in {"", ExchangeTag(r)} :
              exchanges' = [exchanges EXCEPT ![r] =
                  [@ EXCEPT !.received = Append(@, chunk),
                            !.collected_chunks = IF ENABLE_LOGGING THEN @ \o Yielded(chunk)
                                                 ELSE @,
                            !.pc = "gen_loop"]]
    /\ UNCHANGED logVars
    /\ ConcurrentFrame

\* lines 848-851 and 879-881: the upstream stream ended
ExchangeStreamEnd ==
    /\ mode = "concurrent"
    /\ \E r \in Exchanges :
         /\ exchanges[r].pc \in {"gen_start", "gen_loop"}
         /\ exchanges[r].response.status_code = 200
         /\ exchanges' = [exchanges EXCEPT ![r] = [@ EXCEPT !.pc = "done"]]
         /\ IF exchanges[r].collected_chunks # <<>>
            THEN SaveExchangeResponse(exchanges[r], 200, exchanges[r].response.headers,
                                      [text |-> FullResponse(exchanges[r].collected_chunks)])
            ELSE UNCHANGED logVars
    /\ ConcurrentFrame

\* lines 853-878: a read of the stream raised
ExchangeStreamFailure ==
    /\ mode = "concurrent"
    /\ \E r \in Exchanges :
         /\ exchanges[r].pc \in {"gen_start", "gen_loop"}
         /\ \E e \in {x \in Exceptions : x.text \in {"timed out", "boom"}} :
              /\ exchanges' = [exchanges EXCEPT ![r] =
                     [@ EXCEPT !.raised = e, !.pc = "gen_failed"]]
              /\ IF StreamFailureLogged(e)
                 THEN SaveExchangeResponse(exchanges[r], StreamFailureLogStatus(e), <<>>,
                                           StreamFailureContent(e, PROXY_DEBUG))
                 ELSE UNCHANGED logVars
    /\ ConcurrentFrame

\* lines 838 and 879-881: the generator returns after its last yield
ExchangeFinally ==
    /\ mode = "concurrent"
    /\ \E r \in Exchanges :
         /\ exchanges[r].pc \in {"gen_error_yielded", "gen_failed"}
         /\ exchanges' = [exchanges EXCEPT ![r] = [@ EXCEPT !.pc = "done"]]
    /\ UNCHANGED logVars
    /\ ConcurrentFrame

\* lines 879-885: the caller of a stream goes away; the generator is
\* abandoned or unwound, and no except clause of lines 853-878 matches
ExchangeDisconnected ==
    /\ mode = "concurrent"
    /\ \E r \in Exchanges :
         /\ exchanges[r].pc \in {"gen_start", "gen_loop", "gen_error_yielded", "gen_failed"}
         /\ exchanges' = [exchanges EXCEPT ![r] =
                [@ EXCEPT !.disconnected = TRUE, !.pc = "done"]]
    /\ UNCHANGED logVars
    /\ ConcurrentFrame

ConcurrentNext ==
    \/ ExchangeBegin
    \/ ExchangeBufferedResponse
    \/ ExchangeFailure
    \/ ExchangeStreamOpened
    \/ ExchangeErrorBody
    \/ ExchangeChunk
    \/ ExchangeStreamEnd
    \/ ExchangeStreamFailure
    \/ ExchangeFinally
    \/ ExchangeDisconnected

SpecConcurrent == InitConcurrent /\ [][ConcurrentNext]_vars

ServerNext ==
    \/ ProxyBegin
    \/ ProxyToken
    \/ ProxyRelay
    \/ ProxyBufferedResponse
    \/ ProxyBufferedFailure
    \/ ProxyStreamOpened
    \/ ProxyStreamOpenFailure
    \/ GenErrorBody
    \/ GenErrorBodyFailure
    \/ GenChunk
    \/ GenEnd
    \/ GenChunkFailure
    \/ GenFinally
    \/ GenAbandoned
    \/ GenClosed

ReplayNext ==
    \/ ReplayBegin
    \/ ReplayToken
    \/ ReplaySend
    \/ ReplayResponse
    \/ ReplayFailure

\* main(): the process runs the server or one replay
Init == InitServer \/ InitReplay

Next == ServerNext \/ ReplayNext

Spec == Init /\ [][Next]_vars

(***************************************************************************)
(* Properties.                                                             *)
(***************************************************************************)
Last(seq) == seq[Len(seq)]
Front(seq) == SubSeq(seq, 1, Len(seq) - 1)

RequestRecordWritten == RequestFileName(timestamp, request_id) \in DOMAIN files
ResponseRecordWritten == ResponseFileName(timestamp, request_id) \in DOMAIN files

\* the chunks that are a JSON object with the single key "error"
ErrorTexts ==
    {prefix \o e.text \o suffix :
        prefix \in {"Proxy error: ", "Request error: ", "Streaming error: "},
        suffix \in {"", " (Proxy URL: " \o PROXY_URL \o ")"},
        e \in Exceptions}
    \cup {ProxyAuthMessage \o suffix :
            suffix \in {""} \cup {" Details: " \o e.text : e \in Exceptions}}
IsErrorJson(chunk) == \E text \in ErrorTexts : chunk = "{\"error\": \"" \o text \o "\"}"

\* C1: a request whose method carries a body and whose non-empty body is
\* not JSON is answered 400 {"error": "Invalid JSON body"}, and nothing was
\* logged, no token was fetched and no upstream call was made.
C1_InvalidBodyRejected ==
    (/\ mode = "server"
     /\ pc # "start"
     /\ request.method \notin {"GET", "HEAD", "OPTIONS"}
     /\ request.body_bytes # ""
     /\ ~IsValidJson(request.body_bytes))
    => /\ pc = "done"
       /\ reply.kind = "json"
       /\ reply.status_code = 400
       /\ reply.content = [error |-> "Invalid JSON body"]
       /\ files = EmptyStore
       /\ file_writes = <<>>
       /\ token_requests = 0
       /\ upstream_calls = <<>>
       /\ client = "none"

C1_Witness ==
    /\ mode = "server"
    /\ pc = "done"
    /\ request.method = "POST"
    /\ request.body_bytes = "not json"
    /\ ENABLE_LOGGING
    /\ TOKEN_REQUEST_CONFIG # None
    /\ reply.kind = "json"
    /\ reply.status_code = 400

\* C2: in non-streaming mode a response returned by upstream reaches the
\* caller with the upstream status code and the upstream body, parsed when
\* it is JSON of a non-raw content type and as raw text otherwise.
C2_BufferedRelayTransparent ==
    (/\ mode = "server"
     /\ ~is_streaming
     /\ response # None)
    => /\ pc = "done"
       /\ reply.kind = "json"
       /\ reply.status_code = response.status_code
       /\ reply.content =
            IF \/ ContentType(response.headers) = "text/event-stream"
               \/ response.text = "data: hi"
            THEN [text |-> response.text]
            ELSE [json |-> JObj([detail |-> JStr("bad request")])]

C2_Witness ==
    /\ mode = "server"
    /\ pc = "done"
    /\ ~is_streaming
    /\ response # None
    /\ response.status_code = 500
    /\ reply.kind = "json"
    /\ reply.status_code = 500
    /\ reply.content = [json |-> JObj([detail |-> JStr("bad request")])]

\* C3: while a 200 stream has not failed, the bytes delivered to the caller
\* are the concatenation, in arrival order, of the chunks read from upstream.
C3_StreamBytesPreserved ==
    (/\ mode = "server"
     /\ is_streaming
     /\ response # None
     /\ response.status_code = 200
     /\ raised = None)
    => Concat(delivered) = Concat(received)

C3_Witness ==
    /\ mode = "server"
    /\ is_streaming
    /\ pc = "done"
    /\ raised = None
    /\ response # None
    /\ response.status_code = 200
    /\ received = <<"", "da">>
    /\ delivered = <<"da">>

\* C4: a streamed response whose upstream status is not 200 carries the
\* upstream status code, and its payload, for a caller that stays to read
\* it, is the upstream error body as exactly one chunk; nothing is forwarded
\* chunk by chunk.
C4_StreamErrorSingleChunk ==
    (/\ mode = "server"
     /\ is_streaming
     /\ response # None
     /\ response.status_code # 200
     /\ raised = None
     /\ ~disconnected)
    => /\ reply.kind = "stream"
       /\ reply.status_code = response.status_code
       /\ pc \in {"gen_start", "gen_error_yielded", "done"}
       /\ pc = "gen_start" => delivered = <<>>
       /\ pc # "gen_start" => /\ Len(delivered) = 1
                              /\ delivered = received
                              /\ delivered[1] \in BodyTexts

C4_Witness ==
    /\ mode = "server"
    /\ is_streaming
    /\ pc = "done"
    /\ raised = None
    /\ response # None
    /\ response.status_code = 500
    /\ ContentType(response.headers) = "text/event-stream"
    /\ reply.status_code = 500
    /\ ~disconnected
    /\ delivered = <<"{\"detail\": \"bad request\"}">>

\* C5: after a failure while streaming, the caller has received the chunks
\* delivered before the failure and exactly one more chunk, a JSON object
\* {"error": ...}; the stream then ends and no exception leaves the handler.
C5_StreamFailureOneErrorChunk ==
    (/\ mode = "server"
     /\ is_streaming
     /\ response # None
     /\ raised # None)
    => /\ pc \in {"gen_failed", "done"}
       /\ reply.kind = "stream"
       /\ Len(delivered) >= 1
       /\ IsErrorJson(Last(delivered))
       /\ \A i \in 1..(Len(delivered) - 1) : ~IsErrorJson(delivered[i])
       /\ IF response.status_code = 200
          THEN Concat(Front(delivered)) = Concat(received)
          ELSE Len(delivered) = 1

C5_Witness ==
    /\ mode = "server"
    /\ is_streaming
    /\ pc = "done"
    /\ response # None
    /\ response.status_code = 200
    /\ raised # None
    /\ raised.cls = "Exception"
    /\ Len(delivered) = 2
    /\ delivered[1] = "da"

\* C6: a failure of the upstream call before any response is returned is
\* answered 407 for a proxy error whose text has "407" or "Authentication
\* Required", and 502 for every other proxy, transport or timeout error,
\* with a JSON {"error": ...} body.
C6_RelayFailureStatus ==
    (/\ mode = "server"
     /\ response = None
     /\ raised # None
     /\ raised.cls \in {"ProxyError", "ReadTimeout", "ConnectError"})
    => /\ pc = "done"
       /\ reply.kind = "json"
       /\ DOMAIN reply.content = {"error"}
       /\ reply.status_code =
            IF /\ raised.cls = "ProxyError"
               /\ raised.text \in {"407 Proxy Auth", "Proxy Authentication Required"}
            THEN 407 ELSE 502

C6_Witness ==
    /\ mode = "server"
    /\ pc = "done"
    /\ is_streaming
    /\ response = None
    /\ raised # None
    /\ raised.cls = "ProxyError"
    /\ raised.text = "Proxy Authentication Required"
    /\ reply.status_code = 407

\* C7: when the token fetch of a live request fails, the caller gets 500
\* with a JSON error that carries the detail, and no upstream call is made.
C7_TokenFailureAborts ==
    (/\ mode = "server"
     /\ token_result # None
     /\ ~token_result.ok)
    => /\ pc = "done"
       /\ reply.kind = "json"
       /\ reply.status_code = 500
       /\ reply.content = [error |-> "Token request failed: " \o token_result.detail]
       /\ upstream_calls = <<>>
       /\ client = "none"

C7_Witness ==
    /\ mode = "server"
    /\ pc = "done"
    /\ token_result # None
    /\ ~token_result.ok
    /\ token_result.detail = "Token field is empty in response"
    /\ reply.status_code = 500

\* C8: after a successful token fetch every request sent upstream, live or
\* replayed, has exactly one header named authorization in any casing, and
\* its value is "Bearer " followed by the fetched token.
C8_SingleBearerHeader ==
    (token_result # None /\ token_result.ok)
    => \A i \in 1..Len(upstream_calls) :
         LET headers == upstream_calls[i].headers
             auth == {j \in 1..Len(headers) : Lower(headers[j][1]) = "authorization"}
         IN /\ Cardinality(auth) = 1
            /\ \A j \in auth : headers[j][2] = "Bearer " \o token_result.token

C8_Witness ==
    /\ mode = "replay"
    /\ replay.args.filepath = EditedFile
    /\ token_result # None
    /\ token_result.ok
    /\ token_result.token = "tok1"
    /\ Len(upstream_calls) = 1
    /\ DictHas(upstream_calls[1].headers, "Authorization")

\* C9: with logging enabled, every failure after the request record was
\* written (token fetch, proxy or transport failure before the response,
\* any exception while streaming) leaves a response record for the request.
C9_FailureLeavesResponseRecord ==
    (/\ mode = "server"
     /\ ENABLE_LOGGING
     /\ pc = "done"
     /\ RequestRecordWritten
     /\ \/ token_result # None /\ ~token_result.ok
        \/ /\ raised # None
           /\ response = None
           /\ raised.cls \in {"ProxyError", "ReadTimeout", "ConnectError"}
        \/ /\ raised # None
           /\ response # None)
    => ResponseRecordWritten

\* C10: the response record of a failure while streaming has status 407
\* for a proxy-authentication failure and 502 for every other failure.
C10_StreamFailureRecordStatus ==
    (/\ mode = "server"
     /\ ENABLE_LOGGING
     /\ is_streaming
     /\ response # None
     /\ raised # None
     /\ ResponseRecordWritten)
    => files[ResponseFileName(timestamp, request_id)].data.status_code =
         IF /\ raised.cls = "ProxyError"
            /\ raised.text \in {"407 Proxy Auth", "Proxy Authentication Required"}
         THEN 407 ELSE 502

\* C11: when a live request has ended, on whatever path, neither the
\* upstream client nor the upstream response stream is left open.
C11_ResourcesReleased ==
    (mode = "server" /\ pc = "done")
    => /\ client # "open"
       /\ response_cm # "open"

\* the header mapping that the filter step was given
FilterInput == IF mode = "server" THEN incoming_headers ELSE replay.headers

AllowlistedEntries(headers) ==
    {i \in 1..Len(headers) : Lower(headers[i][1]) \in essential_headers}

\* C12: the filter step emits exactly the entries of its input whose
\* lowercased name is in the allowlist, each once, and every header of every
\* request sent upstream has an allowlisted name.
C12_FilterExact ==
    /\ token_result = None
       => /\ \A j \in 1..Len(filtered_headers) :
                /\ Lower(filtered_headers[j][1]) \in essential_headers
                /\ \E i \in 1..Len(FilterInput) : FilterInput[i] = filtered_headers[j]
          /\ \A i \in AllowlistedEntries(FilterInput) :
                \E j \in 1..Len(filtered_headers) : filtered_headers[j] = FilterInput[i]
          /\ Len(filtered_headers) = Cardinality(AllowlistedEntries(FilterInput))
    /\ \A c \in 1..Len(upstream_calls) :
          \A j \in 1..Len(upstream_calls[c].headers) :
             Lower(upstream_calls[c].headers[j][1]) \in essential_headers

C12_Witness ==
    /\ mode = "server"
    /\ token_result = None
    /\ Len(upstream_calls) = 1
    /\ DictHas(incoming_headers, "cookie")
    /\ DictHas(incoming_headers, "AUTHORIZATION")
    /\ ~DictHas(upstream_calls[1].headers, "cookie")
    /\ DictHas(upstream_calls[1].headers, "AUTHORIZATION")

NoCaseDuplicates(headers) ==
    \A i, j \in 1..Len(headers) :
        Lower(headers[i][1]) = Lower(headers[j][1]) => i = j

\* merge_headers_with_request was called and the filter step has run
MergeApplied ==
    IF mode = "server"
    THEN MERGE_HEADERS # <<>> /\ request_id # ""
    ELSE replay # None /\ replay.args.merge_headers # <<>> /\ replay.url_to_use # ""

\* C13: after a merge, neither the merged header mapping nor the filtered one holds two
\* entries whose names are equal case-insensitively.
C13_NoCaseDuplicates ==
    MergeApplied
    => /\ NoCaseDuplicates(FilterInput)
       /\ NoCaseDuplicates(filtered_headers)

\* a merge has returned
MergeReturned ==
    mode = "unit" /\ call.fn = "merge_headers_with_request" /\ result # <<>>

HasEntry(headers, entry) == \E j \in 1..Len(headers) : headers[j] = entry

\* the inbound entries that no override name matches are in the result
UnmatchedInboundKept ==
    \A i \in 1..Len(call.request_headers) :
        (\A k \in 1..Len(call.merge_headers) :
            Lower(call.merge_headers[k][1]) # Lower(call.request_headers[i][1]))
        => HasEntry(result[1], call.request_headers[i])

C15_FlattenIdempotent ==
    (/\ mode = "unit"
     /\ call.fn = "flatten_content_in_body"
     /\ Len(result) = 2)
    => result[2] = result[1]

\* the body has a list under "messages"
LooksLikeChat(body) ==
    body.t = "obj" /\ "messages" \in DOMAIN body.f /\ body.f["messages"].t = "list"

\* `out` is `body` with every message replaced as a pair of `OkPairs` allows,
\* and nothing else of the body touched
SameButMessages(body, out, OkPairs) ==
    /\ out.t = "obj"
    /\ DOMAIN out.f = DOMAIN body.f
    /\ \A k \in DOMAIN body.f \ {"messages"} : out.f[k] = body.f[k]
    /\ out.f["messages"].t = "list"
    /\ Len(out.f["messages"].items) = Len(body.f["messages"].items)
    /\ \A i \in 1..Len(body.f["messages"].items) :
          <<body.f["messages"].items[i], out.f["messages"].items[i]>> \in OkPairs

HasToolRole(m) ==
    m.t = "obj" /\ "role" \in DOMAIN m.f
    /\ m.f["role"] \in {JStr("tool-call"), JStr("tool-response")}

\* the message pairs <<before, after>> that C16 allows
RemappedPairs ==
    {<<m, m>> : m \in {x \in UnitMessages : ~HasToolRole(x)}}
    \cup {<<m, SetKey(m, "role", JStr("user"))>> : m \in {x \in UnitMessages : HasToolRole(x)}}

\* C16: replace_tool_roles_in_body turns the roles "tool-call" and
\* "tool-response" into "user", leaves every other message as it is, and
\* changes no other field of a message or of the body.
C16_ToolRolesRemapped ==
    (/\ mode = "unit"
     /\ call.fn = "replace_tool_roles_in_body"
     /\ result # <<>>)
    => IF LooksLikeChat(call.body)
       THEN SameButMessages(call.body, result[1], RemappedPairs)
       ELSE result[1] = call.body

C16_Witness ==
    /\ mode = "unit"
    /\ call.fn = "replace_tool_roles_in_body"
    /\ result # <<>>
    /\ LooksLikeChat(call.body)
    /\ Len(call.body.f["messages"].items) = 2
    /\ call.body.f["messages"].items[1] = ToolMessage
    /\ call.body.f["messages"].items[2] =
          JObj([role |-> JStr("assistant"), content |-> JStr("plain"), tool_calls |-> JNull])
    /\ result[1].f["messages"].items[1].f["role"] = JStr("user")
    /\ result[1].f["messages"].items[2].f["role"] = JStr("assistant")

HasNullToolCalls(m) ==
    m.t = "obj" /\ "tool_calls" \in DOMAIN m.f /\ m.f["tool_calls"].t = "null"

\* the message pairs <<before, after>> that C17 allows
StrippedPairs ==
    {<<m, m>> : m \in {x \in UnitMessages : ~HasNullToolCalls(x)}}
    \cup {<<m, JObj([k \in DOMAIN m.f \ {"tool_calls"} |-> m.f[k]])>> :
            m \in {x \in UnitMessages : HasNullToolCalls(x)}}

\* C17: remove_null_tool_calls_in_body deletes the key tool_calls from the
\* messages where it is null, and leaves every other message (tool_calls
\* absent, an empty list, an object) and every other key as it is.
C17_NullToolCallsStripped ==
    (/\ mode = "unit"
     /\ call.fn = "remove_null_tool_calls_in_body"
     /\ result # <<>>)
    => IF LooksLikeChat(call.body)
       THEN SameButMessages(call.body, result[1], StrippedPairs)
       ELSE result[1] = call.body

C17_Witness ==
    /\ mode = "unit"
    /\ call.fn = "remove_null_tool_calls_in_body"
    /\ result # <<>>
    /\ LooksLikeChat(call.body)
    /\ Len(call.body.f["messages"].items) = 2
    /\ HasNullToolCalls(call.body.f["messages"].items[1])
    /\ call.body.f["messages"].items[2].t = "obj"
    /\ "tool_calls" \in DOMAIN call.body.f["messages"].items[2].f
    /\ call.body.f["messages"].items[2].f["tool_calls"] = JList(<<>>)
    /\ "tool_calls" \notin DOMAIN result[1].f["messages"].items[1].f
    /\ result[1].f["messages"].items[2].f["tool_calls"] = JList(<<>>)

\* method, target, headers and body of a request sent upstream
Sent(c) == [method |-> c.method, url |-> c.url, headers |-> c.headers, body |-> c.body]

\* the live request sent for `req` by a server without a token configuration
LiveSent(req, merge_headers, flatten, no_tool_roles, remove_null) ==
    [method |-> req.method,
     url |-> TARGET_URL,
     headers |-> FilterHeaders(IncomingHeaders(req, merge_headers)),
     body |-> TransformBody(IncomingBody(req), flatten, no_tool_roles, remove_null)]

PersistedFile == RequestFileName(NewTimestamp, NewRequestId)

\* the replay reads the record of the originating request and overrides
\* neither target nor headers nor token
ReplayOfPersisted ==
    /\ mode = "replay"
    /\ replay.args.filepath = PersistedFile
    /\ replay.args.target_url = ""
    /\ replay.args.merge_headers = <<>>
    /\ replay.args.token_request_config = None

C19_ReplayWritesNothing ==
    mode = "replay"
    => /\ files = PersistedStore(replay.origin.request, replay.origin.merge_headers)
       /\ file_writes = <<>>

C19_Witness ==
    /\ mode = "replay"
    /\ pc = "done"
    /\ raised # None
    /\ raised.cls = "ConnectError"
    /\ ~replay.result.success
    /\ DOMAIN files = {PersistedFile, EditedFile, BrokenFile, ListFile}

\* a failure result of replay_request_from_file
IsReplayError(r) ==
    /\ {"success", "error", "details"} \subseteq DOMAIN r
    /\ r.success = FALSE

\* C20: a replay always ends with a result; a missing or unreadable log file
\* is reported without a token request or an upstream call, a failed token
\* fetch without an upstream call, and a failure of the upstream call with
\* the text of the exception, a timeout under a kind of its own.
C20_ReplayFailuresReported ==
    (mode = "replay" /\ pc = "done")
    => /\ replay.result # None
       /\ reply = NoReply
       /\ replay.args.filepath \in {MissingFile, BrokenFile, ListFile}
          => /\ IsReplayError(replay.result)
             /\ token_requests = 0
             /\ upstream_calls = <<>>
             /\ client = "none"
       /\ (token_result # None /\ ~token_result.ok)
          => /\ IsReplayError(replay.result)
             /\ replay.result.error = "Token request failed"
             /\ replay.result.details = token_result.detail
             /\ upstream_calls = <<>>
       /\ raised # None
          => /\ IsReplayError(replay.result)
             /\ replay.result.details = raised.text
             /\ (replay.result.error = "Request timeout") <=> (raised.cls = "ReadTimeout")
       /\ (/\ replay.args.filepath \notin {MissingFile, BrokenFile, ListFile}
           /\ raised = None
           /\ token_result = None \/ token_result.ok)
          => replay.result.success

C20_Witness ==
    /\ mode = "replay"
    /\ pc = "done"
    /\ raised # None
    /\ raised.cls = "ReadTimeout"
    /\ replay.result = ReplayError("Request timeout", "timed out")
    /\ Len(upstream_calls) = 1

\* C21: a live request makes at most one token request and at most one
\* upstream call, whatever fails, and the token request, when one is
\* configured, is made before the upstream call.
C21_NothingRetried ==
    [][mode = "server"
       => /\ token_requests' <= 1
          /\ Len(upstream_calls') <= 1
          /\ token_requests' # token_requests => upstream_calls = <<>>
          /\ (upstream_calls' # upstream_calls /\ TOKEN_REQUEST_CONFIG # None)
             => token_requests = 1]_vars

C21_Witness ==
    /\ mode = "server"
    /\ pc = "done"
    /\ TOKEN_REQUEST_CONFIG # None
    /\ token_requests = 1
    /\ Len(upstream_calls) = 1
    /\ raised # None
    /\ raised.cls = "ReadTimeout"

\* the field is in the JSON body and its value is not empty
TokenFieldFilled(data, token_field) ==
    /\ data.t = "obj"
    /\ token_field \in DOMAIN data.f
    /\ Truthy(data.f[token_field])

InOrder(name, order) == \E i \in DOMAIN order : order[i] = name

\* C23: two or three of the body transforms applied in any order give the
\* body that the fixed order of proxy and replay (flatten, roles, nulls)
\* gives for the same selection.
C23_TransformsCommute ==
    (/\ mode = "unit"
     /\ call.fn = "transforms"
     /\ result # <<>>)
    => result[1] = TransformBody(call.body,
                       InOrder("flatten_content_in_body", call.order),
                       InOrder("replace_tool_roles_in_body", call.order),
                       InOrder("remove_null_tool_calls_in_body", call.order))

C23_Witness ==
    /\ mode = "unit"
    /\ call.fn = "transforms"
    /\ call.order = <<"remove_null_tool_calls_in_body", "replace_tool_roles_in_body",
                      "flatten_content_in_body">>
    /\ call.body = JObj([model |-> JStr("m"), messages |-> JList(<<ToolMessage>>)])
    /\ result = <<JObj([model |-> JStr("m"),
                        messages |-> JList(<<JObj([role |-> JStr("user"),
                                                    content |-> JStr("hi")])>>)])>>

\* C24: no file of the log is opened for writing twice: a request has at
\* most one response record, and a written record is never written again.
C24_RecordsWrittenOnce ==
    \A i, j \in 1..Len(file_writes) : file_writes[i] = file_writes[j] => i = j

\* C25: with logging enabled, a live request whose upstream call completed
\* without a failure, and whose caller stayed, ends with a response record
\* under the key of its request record.
C25_CompletedExchangeRecorded ==
    (/\ mode = "server"
     /\ ENABLE_LOGGING
     /\ pc = "done"
     /\ response # None
     /\ raised = None
     /\ ~disconnected)
    => /\ RequestRecordWritten
       /\ ResponseRecordWritten

\* the response record of the request
ResponseRecord == files[ResponseFileName(timestamp, request_id)].data

\* a 200 stream of a logging server has its response record
StreamRecorded ==
    /\ mode = "server"
    /\ ENABLE_LOGGING
    /\ is_streaming
    /\ response # None
    /\ response.status_code = 200
    /\ ResponseRecordWritten

\* C26 as stated: the response record of a 200 stream exists only once
\* nothing more is delivered, and its body is the concatenation of the
\* chunks delivered to the caller.
C26_StreamRecordAfterLastChunk ==
    StreamRecorded
    => /\ pc = "done"
       /\ ResponseRecord.status_code = 200
       /\ ResponseRecord.body = [text |-> Concat(delivered)]

\* C26, amended: the same for a 200 stream that ends without a failure.
C26_CompleteStreamRecordAfterLastChunk ==
    (StreamRecorded /\ raised = None)
    => /\ pc = "done"
       /\ ResponseRecord.status_code = 200
       /\ ResponseRecord.body = [text |-> Concat(delivered)]

C26_Witness ==
    /\ StreamRecorded
    /\ raised = None
    /\ pc = "done"
    /\ delivered = <<"da", "ta">>
    /\ ResponseRecord.body = [text |-> "data"]

\* C27: the upstream call is a streaming call exactly when the transformed
\* body is an object whose "stream" is the boolean true.
C27_StreamOnlyOnBooleanTrue ==
    \A i \in 1..Len(upstream_calls) :
        mode = "server"
        => (upstream_calls[i].stream
            <=> /\ body_to_send.t = "obj"
                /\ "stream" \in DOMAIN body_to_send.f
                /\ body_to_send.f["stream"] = JBool(TRUE))

CorsRequestHeaders ==
    {"origin", "access-control-request-method", "access-control-request-headers"}

\* C28: unless the CORS mode of a live server is 'forward', no request sent
\* upstream carries origin or an access-control-request-* header.
C28_CorsHeadersOnlyWhenForwarding ==
    (mode = "replay" \/ (mode = "server" /\ CORS_MODE # "forward"))
    => \A i \in 1..Len(upstream_calls) :
         \A j \in 1..Len(upstream_calls[i].headers) :
            Lower(upstream_calls[i].headers[j][1]) \notin CorsRequestHeaders

\* C29: no step changes the target URL, the transform flags, the override
\* headers or the token configuration of the server or of the replay.
C29_ConfigurationReadOnly ==
    [][/\ UNCHANGED <<TARGET_URL, FLATTEN_CONTENT, NO_TOOL_ROLES, REMOVE_NULL_TOOL_CALLS,
                      MERGE_HEADERS, TOKEN_REQUEST_CONFIG>>
       /\ mode = "replay"
          => /\ replay'.args = replay.args
             /\ replay'.token_request_config = replay.token_request_config]_vars

\* the key of the records of exchange `r`
ExchangeKey(r) == <<exchanges[r].timestamp, exchanges[r].request_id>>

\* what exchange `r` received from its own upstream connection, or the
\* report of its own failure
OwnResponseBodies(r) ==
    {[text |-> Concat(exchanges[r].collected_chunks)], [text |-> ExchangeTag(r)]}
    \cup (IF exchanges[r].raised # None
          THEN {RelayFailureContent(exchanges[r].raised, PROXY_DEBUG)}
          ELSE {})

\* the caller of exchange `r` left a 200 stream that had not failed
CancelledWhileRelaying(r) ==
    /\ exchanges[r].disconnected
    /\ exchanges[r].raised = None
    /\ exchanges[r].response.status_code = 200

\* C30: with several requests in flight, every file of the log carries the
\* key of one exchange, a file under the key of an exchange holds that
\* exchange's own id, request headers and body, or its own upstream data or
\* failure, and a stream whose caller left while chunks were relayed has no
\* response record.
C30_RecordsOfOwnExchange ==
    mode = "concurrent"
    => /\ \A n \in DOMAIN files : \E r \in Begun : <<n[1], n[2]>> = ExchangeKey(r)
       /\ \A r \in Begun : \A n \in DOMAIN files :
            <<n[1], n[2]>> = ExchangeKey(r)
            => /\ files[n].data.request_id = exchanges[r].request_id
               /\ n[3] = "request"
                  => /\ files[n].data.headers = exchanges[r].incoming_headers
                     /\ files[n].data.body = exchanges[r].incoming_body
               /\ n[3] = "response" => files[n].data.body \in OwnResponseBodies(r)
       /\ \A r \in Begun :
            CancelledWhileRelaying(r)
            => ResponseFileName(exchanges[r].timestamp, exchanges[r].request_id)
                   \notin DOMAIN files

C30_Witness ==
    /\ mode = "concurrent"
    /\ exchanges[1].timestamp = exchanges[2].timestamp
    /\ exchanges[1].disconnected
    /\ exchanges[1].collected_chunks = <<"one">>
    /\ exchanges[2].pc = "done"
    /\ exchanges[2].collected_chunks = <<"two", "two">>
    /\ file_writes = <<RequestFileName(exchanges[2].timestamp, exchanges[2].request_id),
                       RequestFileName(exchanges[1].timestamp, exchanges[1].request_id),
                       ResponseFileName(exchanges[2].timestamp, exchanges[2].request_id)>>
    /\ files[ResponseFileName(exchanges[2].timestamp, exchanges[2].request_id)].data.body
           = [text |-> "twotwo"]
    /\ ResponseFileName(exchanges[1].timestamp, exchanges[1].request_id) \notin DOMAIN files
====
